---- MODULE Spec2Model ----
(***************************************************************************)
(* A model of src/core/poll_service.py (PollService): vote casting with    *)
(* toggle and limit enforcement, category vote resolution and poll closing.*)
(*                                                                         *)
(* The poll_votes table is a bag (multiset) of rows: the autoincrement id  *)
(* and the display name of a row take no part in any query of the service, *)
(* so a row is its (poll_id, user_id, vote_type, game_id, category_level)  *)
(* and the table may hold several copies of it.                            *)
(***************************************************************************)
EXTENDS Integers, Sequences, FiniteSets, Bags, TLC

\* ------------------------------------------------------------------ bounds
\* the most rows the table is let grow to, the largest fixed limit that is
\* configured, the largest candidate count the limiter is probed with
MaxVotes == 2
MaxFixedLimit == 2
MaxCount == 40

\* the identifiers in play: one poll, two voters, two games, two levels
Polls == {1}
Users == {1, 2}
GameIds == {1, 2}
Levels == {1, 2}

\* ------------------------------------------------------- program constants
GAME == "game"
CATEGORY == "category"
VoteTypes == {GAME, CATEGORY}

\* VoteLimit.AUTO and VoteLimit.UNLIMITED (src.core.models); every other
\* configured value is a fixed positive limit.
AUTO == -1
UNLIMITED == 0

\* Python's None as returned by calculate_effective_limit, and a NULL column.
None == -2
NULL == 0

VARIABLES
    votes,        \* the poll_votes table
    vote_limit,   \* the session's configured vote limit
    valid_games,  \* the candidate games of the polls
    cast,         \* arguments and VoteResult of the last cast_vote call
    votes_before, \* the table as it was when the last call started
    toggle_run,   \* position of the last cast in a run of identical casts
    toggle_base,  \* the table as it was when that run started
    closed,       \* arguments and return value of the last close_poll call
    eff,          \* arguments and result of the last calculate_effective_limit probe
    retry,        \* a rejected cast, and how far its retry has come
    calls,        \* the cast_vote calls in flight, one for each concurrent caller
    row_locking   \* whether the lookup is issued with_for_update (postgresql)

vars == <<votes, vote_limit, valid_games, cast, votes_before, toggle_run,
          toggle_base, closed, eff, retry, calls, row_locking>>

\* --------------------------------------------------------------- Vote Limiter
RECURSIVE CeilLog2From(_, _)
CeilLog2From(n, k) == IF 2^k >= n THEN k ELSE CeilLog2From(n, k + 1)

\* math.ceil(math.log2(n)) for n >= 1: the least k with 2^k >= n
CeilLog2(n) == CeilLog2From(n, 0)

Max(a, b) == IF a >= b THEN a ELSE b

\* an AUTO limit without the floor of 3
effective_limit_unfloored(vote_limit_, game_count) ==
    IF vote_limit_ = AUTO
    THEN IF game_count <= 0 THEN 3 ELSE CeilLog2(game_count)
    ELSE IF vote_limit_ = UNLIMITED THEN None ELSE vote_limit_

calculate_effective_limit(vote_limit_, game_count) ==
    IF vote_limit_ = AUTO
    THEN IF game_count <= 0 THEN 3 ELSE Max(3, CeilLog2(game_count))
    ELSE IF vote_limit_ = UNLIMITED THEN None ELSE vote_limit_

\* ------------------------------------------------------------- the vote store
PollVote(poll_id, user_id, vote_type, target_id) ==
    [poll_id |-> poll_id, user_id |-> user_id, vote_type |-> vote_type,
     game_id |-> IF vote_type = GAME THEN target_id ELSE NULL,
     category_level |-> IF vote_type = GAME THEN NULL ELSE target_id]

\* the rows of table B that a where-clause selected, with their multiplicity
Where(B, rows) == [r \in rows |-> B[r]]

RowCount(B) == IF DOMAIN B = {} THEN 0 ELSE BagCardinality(B)

Insert(B, row) == B (+) SetToBag({row})

\* a delete that is never committed
DeleteNotCommitted(B, row) == B

Delete(B, row) == B (-) SetToBag({row})

\* a lookup that compares game_id whatever the vote type
MatchesOnGameId(v, poll_id, user_id, vote_type, target_id) ==
    /\ v.poll_id = poll_id
    /\ v.user_id = user_id
    /\ v.vote_type = vote_type
    /\ v.game_id = target_id

\* the where-clause of the existence lookup
Matches(v, poll_id, user_id, vote_type, target_id) ==
    /\ v.poll_id = poll_id
    /\ v.user_id = user_id
    /\ v.vote_type = vote_type
    /\ IF vote_type = GAME
       THEN v.game_id = target_id
       ELSE v.category_level = target_id

\* a lookup that matches the target number whatever the kind of the vote
ExistingVotesOfAnyKind(B, poll_id, user_id, vote_type, target_id) ==
    Where(B, {v \in DOMAIN B : /\ v.poll_id = poll_id
                                /\ v.user_id = user_id
                                /\ (v.game_id = target_id \/ v.category_level = target_id)})

ExistingVotes(B, poll_id, user_id, vote_type, target_id) ==
    Where(B, {v \in DOMAIN B : Matches(v, poll_id, user_id, vote_type, target_id)})

\* a count over the votes of the user in all polls
UserVoteCountAllPolls(B, poll_id, user_id) ==
    RowCount(Where(B, {v \in DOMAIN B : v.user_id = user_id}))

\* a count that sees the GAME votes only
UserVoteCountGamesOnly(B, poll_id, user_id) ==
    RowCount(Where(B, {v \in DOMAIN B : v.poll_id = poll_id /\ v.user_id = user_id
                                         /\ v.vote_type = GAME}))

\* select count(id) where poll_id = .. and user_id = ..  (both kinds)
UserVoteCount(B, poll_id, user_id) ==
    RowCount(Where(B, {v \in DOMAIN B : v.poll_id = poll_id /\ v.user_id = user_id}))

\* a limit check that is off by one
LimitReachedStrict(user_vote_count, effective_limit) ==
    user_vote_count > effective_limit

LimitReached(user_vote_count, effective_limit) ==
    user_vote_count >= effective_limit

\* ------------------------------------------------------------------ cast_vote
NoCast == [poll_id |-> 0, user_id |-> 0, target_id |-> 0, vote_type |-> "none",
           outcome |-> "none", success |-> FALSE, is_removal |-> FALSE,
           message |-> ""]

VoteResult(poll_id, user_id, target_id, vote_type, outcome, success, message, is_removal) ==
    [poll_id |-> poll_id, user_id |-> user_id, target_id |-> target_id,
     vote_type |-> vote_type, outcome |-> outcome, success |-> success,
     is_removal |-> is_removal, message |-> message]

NoStars == [present |-> FALSE, map |-> <<>>]

NoClose == [poll_id |-> 0, chat_id |-> 0, all_votes |-> <<>>, raised |-> FALSE,
            category_resolutions |-> <<>>, resolved_votes |-> <<>>,
            is_weighted |-> FALSE, star_collections |-> NoStars,
            scores |-> <<>>, winners |-> <<>>, modifiers_log |-> <<>>]

\* a path that checks the limit before it looks for the vote
CastPathLimitFirst(B, poll_id, user_id, target_id, vote_type, vote_limit_, game_count) ==
    LET existing == ExistingVotes(B, poll_id, user_id, vote_type, target_id)
        effective_limit == calculate_effective_limit(vote_limit_, game_count)
        user_vote_count == UserVoteCount(B, poll_id, user_id)
    IN  IF effective_limit # None /\ LimitReached(user_vote_count, effective_limit)
        THEN "reject"
        ELSE IF RowCount(existing) > 1 THEN "raise"
        ELSE IF RowCount(existing) = 1 THEN "remove"
        ELSE "insert"

\* a path that compares the count with the limit even when there is none
CastPathAlwaysLimited(B, poll_id, user_id, target_id, vote_type, vote_limit_, game_count) ==
    LET existing == ExistingVotes(B, poll_id, user_id, vote_type, target_id)
        effective_limit == calculate_effective_limit(vote_limit_, game_count)
        user_vote_count == UserVoteCount(B, poll_id, user_id)
    IN  IF RowCount(existing) > 1 THEN "raise"
        ELSE IF RowCount(existing) = 1 THEN "remove"
        ELSE IF LimitReached(user_vote_count, effective_limit)
             THEN "reject"
             ELSE "insert"

\* The path one call takes through cast_vote on table B.
CastPath(B, poll_id, user_id, target_id, vote_type, vote_limit_, game_count) ==
    LET existing == ExistingVotes(B, poll_id, user_id, vote_type, target_id)
        effective_limit == calculate_effective_limit(vote_limit_, game_count)
        user_vote_count == UserVoteCount(B, poll_id, user_id)
    IN  IF RowCount(existing) > 1 THEN "raise"
        ELSE IF RowCount(existing) = 1 THEN "remove"
        ELSE IF effective_limit # None /\ LimitReached(user_vote_count, effective_limit)
             THEN "reject"
             ELSE "insert"

\* What the table holds, read off the rows themselves: the observations the
\* run bookkeeping of CastVote and the properties below are stated with.
HoldsVote(B, poll_id, user_id, vote_type, target_id) ==
    \E r \in DOMAIN B :
        /\ r.poll_id = poll_id /\ r.user_id = user_id /\ r.vote_type = vote_type
        /\ (IF vote_type = GAME THEN r.game_id ELSE r.category_level) = target_id

RECURSIVE SumOver(_, _)
SumOver(B, rows) ==
    IF rows = {} THEN 0
    ELSE LET r == CHOOSE x \in rows : TRUE IN B[r] + SumOver(B, rows \ {r})

VotesHeld(B, poll_id, user_id) ==
    SumOver(B, {r \in DOMAIN B : r.poll_id = poll_id /\ r.user_id = user_id})

SameCall(c, poll_id, user_id, target_id, vote_type) ==
    /\ c.poll_id = poll_id
    /\ c.user_id = user_id
    /\ c.target_id = target_id
    /\ c.vote_type = vote_type

CastVoteCall(poll_id, user_id, target_id, vote_type) ==
    LET path == CastPath(votes, poll_id, user_id, target_id, vote_type,
                         vote_limit, Len(valid_games))
        existing == ExistingVotes(votes, poll_id, user_id, vote_type, target_id)
        effective_limit == calculate_effective_limit(vote_limit, Len(valid_games))
        continues == toggle_run \in 1..3
                     /\ SameCall(cast, poll_id, user_id, target_id, vote_type)
        \* a run starts with a cast of an absent vote by a user below the limit
        starts == /\ ~HoldsVote(votes, poll_id, user_id, vote_type, target_id)
                  /\ \/ effective_limit = None
                     \/ VotesHeld(votes, poll_id, user_id) < effective_limit
    IN  /\ path = "insert" => RowCount(votes) < MaxVotes
        /\ votes_before' = votes
        /\ CASE path = "raise" ->
                  \* scalar_one_or_none raises MultipleResultsFound
                  /\ votes' = votes
                  /\ cast' = VoteResult(poll_id, user_id, target_id, vote_type,
                                        "raise", FALSE, "", FALSE)
             [] path = "remove" ->
                  /\ votes' = Delete(votes, CHOOSE r \in DOMAIN existing : TRUE)
                  /\ cast' = VoteResult(poll_id, user_id, target_id, vote_type,
                                        "return", TRUE, "Vote removed", TRUE)
             [] path = "reject" ->
                  /\ votes' = votes
                  /\ cast' = VoteResult(poll_id, user_id, target_id, vote_type,
                                        "return", FALSE, "Vote limit reached", FALSE)
             [] path = "insert" ->
                  /\ votes' = Insert(votes, PollVote(poll_id, user_id, vote_type, target_id))
                  /\ cast' = VoteResult(poll_id, user_id, target_id, vote_type,
                                        "return", TRUE,
                                        IF vote_type = CATEGORY
                                        THEN "Voted on Category" ELSE "Vote recorded",
                                        FALSE)
        /\ IF continues
           THEN /\ toggle_run' = IF toggle_run = 3 THEN 2 ELSE toggle_run + 1
                /\ toggle_base' = toggle_base
           ELSE IF starts
                THEN toggle_run' = 1 /\ toggle_base' = votes
                ELSE toggle_run' = 0 /\ toggle_base' = EmptyBag
        /\ closed' = NoClose
        /\ UNCHANGED <<vote_limit, valid_games, eff>>

\* one call of cast_vote, from its lookup to its commit, with no other call
\* in between
CastVote(poll_id, user_id, target_id, vote_type) ==
    /\ CastVoteCall(poll_id, user_id, target_id, vote_type)
    /\ UNCHANGED <<retry, calls, row_locking>>

\* ------------------------------------------------------ candidate games, DB
GameNames == <<"Catan", "Wingspan", "Gloomhaven", "Azul">>

Game(id, complexity) == [id |-> id, name |-> GameNames[id], complexity |-> complexity]

Games == {Game(id, c) : id \in GameIds, c \in Levels}

\* candidate lists: games of distinct ids, in id order
CandidateLists ==
    UNION {{s \in [1..n -> Games] : \A i \in 1..n, j \in 1..n : i < j => s[i].id < s[j].id}
           : n \in 0..Cardinality(GameIds)}

\* the sessions table: chat 1 has weighted mode off, chat 2 on, chat 3 has no row
Chats == 1..3
Sessions == (1 :> [settings_weighted |-> FALSE]) @@ (2 :> [settings_weighted |-> TRUE])

\* the collection table, rows in state STARRED: <<user_id, game_id>>
Starred == {<<1, 1>>, <<2, 1>>}

\* the priority set of a poll: the games starred by at least one participant
PriorityIds == {id \in GameIds : \E u \in Users : <<u, id>> \in Starred}

\* ------------------------------------------------------- Category Resolver
\* group_games_by_complexity: complexity level -> games of that level
group_games_by_complexity(valid_games_) ==
    [l \in {valid_games_[i].complexity : i \in DOMAIN valid_games_} |->
        SelectSeq(valid_games_, LAMBDA g : g.complexity = l)]

\* groups.get(level, [])
\* a lookup that falls back to some other level when the level has no games
GroupGetOrOther(groups, level) ==
    IF level \in DOMAIN groups THEN groups[level]
    ELSE IF DOMAIN groups = {} THEN <<>>
    ELSE groups[CHOOSE l \in DOMAIN groups : TRUE]

GroupGet(groups, level) == IF level \in DOMAIN groups THEN groups[level] ELSE <<>>

\* random.choice(seq) with the draw r of the generator
RandomChoice(seq, r) == seq[(r % Len(seq)) + 1]

\* a resolver that draws from an empty group as well
AnyGroupUsable(target_group) == TRUE

\* `if target_group:`
TargetGroupUsable(target_group) == target_group # <<>>

\* `if level not in category_resolutions:`
NeedsResolution(level, category_resolutions) == level \notin DOMAIN category_resolutions

\* The first loop: st.res is category_resolutions, st.used the number of
\* draws taken from rnd, st.raised whether random.choice raised IndexError.
RECURSIVE CategoryResolutions(_, _, _, _, _)
CategoryResolutions(all_votes, groups, rnd, i, st) ==
    IF i > Len(all_votes) \/ st.raised THEN st
    ELSE LET v == all_votes[i]
             level == v.category_level
             target_group == GroupGet(groups, level)
         IN  IF v.vote_type = CATEGORY /\ NeedsResolution(level, st.res)
                /\ TargetGroupUsable(target_group)
             THEN IF target_group = <<>>
                  THEN [st EXCEPT !.raised = TRUE]
                  ELSE CategoryResolutions(all_votes, groups, rnd, i + 1,
                          [res |-> (level :> RandomChoice(target_group, rnd[st.used + 1]))
                                   @@ st.res,
                           used |-> st.used + 1, raised |-> FALSE])
             ELSE CategoryResolutions(all_votes, groups, rnd, i + 1, st)

\* a resolved vote built with its two fields exchanged
ResolvedVoteSwapped(game_id, user_id) == [game_id |-> user_id, user_id |-> game_id]

ResolvedVote(game_id, user_id) == [game_id |-> game_id, user_id |-> user_id]

\* a second loop that credits the level number instead of the selected game
RECURSIVE BuildResolvedByLevel(_, _, _)
BuildResolvedByLevel(all_votes, category_resolutions, i) ==
    IF i > Len(all_votes) THEN <<>>
    ELSE LET v == all_votes[i]
             rest == BuildResolvedByLevel(all_votes, category_resolutions, i + 1)
         IN  IF v.vote_type = CATEGORY
             THEN IF v.category_level \in DOMAIN category_resolutions
                  THEN <<ResolvedVote(v.category_level, v.user_id)>> \o rest
                  ELSE rest
             ELSE <<ResolvedVote(v.game_id, v.user_id)>> \o rest

\* The second loop: the resolved votes of all_votes[i..]
RECURSIVE BuildResolved(_, _, _)
BuildResolved(all_votes, category_resolutions, i) ==
    IF i > Len(all_votes) THEN <<>>
    ELSE LET v == all_votes[i]
             rest == BuildResolved(all_votes, category_resolutions, i + 1)
         IN  IF v.vote_type = CATEGORY
             THEN IF v.category_level \in DOMAIN category_resolutions
                  THEN <<ResolvedVote(category_resolutions[v.category_level].id, v.user_id)>>
                       \o rest
                  ELSE rest
             ELSE IF v.vote_type = GAME
                  THEN <<ResolvedVote(v.game_id, v.user_id)>> \o rest
                  ELSE rest

\* a resolver without the per-level cache: one draw for every CATEGORY vote
RECURSIVE ResolveEachVote(_, _, _, _, _)
ResolveEachVote(all_votes, groups, rnd, i, used) ==
    IF i > Len(all_votes) THEN <<>>
    ELSE LET v == all_votes[i]
             target_group == GroupGet(groups, v.category_level)
         IN  IF v.vote_type = CATEGORY
             THEN IF target_group # <<>>
                  THEN <<ResolvedVote(RandomChoice(target_group, rnd[used + 1]).id,
                                      v.user_id)>>
                       \o ResolveEachVote(all_votes, groups, rnd, i + 1, used + 1)
                  ELSE ResolveEachVote(all_votes, groups, rnd, i + 1, used)
             ELSE <<ResolvedVote(v.game_id, v.user_id)>>
                  \o ResolveEachVote(all_votes, groups, rnd, i + 1, used)

resolve_votes_uncached(all_votes, valid_games_, rnd) ==
    [raised |-> FALSE, category_resolutions |-> <<>>,
     resolved_votes |-> ResolveEachVote(all_votes,
                            group_games_by_complexity(valid_games_), rnd, 1, 0)]

resolve_category_votes(all_votes, valid_games_, rnd) ==
    CHOOSE resolution \in
        {[raised |-> st.raised,
          category_resolutions |-> st.res,
          resolved_votes |-> IF st.raised THEN <<>>
                             ELSE BuildResolved(all_votes, st.res, 1)]
         : st \in {CategoryResolutions(all_votes,
                                       group_games_by_complexity(valid_games_), rnd, 1,
                                       [res |-> <<>>, used |-> 0, raised |-> FALSE])}}
        : TRUE

\* ------------------------------------------------------------ Scoring Engine
\* select * from poll_votes where poll_id = ..
get_votes_for_poll(B, poll_id) == Where(B, {v \in DOMAIN B : v.poll_id = poll_id})

\* the lists in which the rows of B can be returned (the select has no order by)
Orderings(B) ==
    LET n == RowCount(B)
    IN  {s \in [1..n -> DOMAIN B] :
            \A r \in DOMAIN B : Cardinality({i \in 1..n : s[i] = r}) = B[r]}

\* game id -> users who starred it, for the candidate games of priority_ids
build_star_collections(valid_games_, priority_ids) ==
    [present |-> TRUE,
     map |-> [id \in {valid_games_[i].id : i \in DOMAIN valid_games_} \cap priority_ids |->
                {u \in Users : <<u, id>> \in Starred}]]

\* a lookup that treats a chat without a session row as weighted
IsWeightedByDefault(chat_id) ==
    IF chat_id \in DOMAIN Sessions THEN Sessions[chat_id].settings_weighted ELSE TRUE

\* session.get(Session, chat_id), then settings_weighted or False
IsWeighted(chat_id) ==
    IF chat_id \in DOMAIN Sessions THEN Sessions[chat_id].settings_weighted ELSE FALSE

CandidateIds(valid_games_) == {valid_games_[i].id : i \in DOMAIN valid_games_}

RawScore(resolved_votes, id) ==
    Cardinality({i \in DOMAIN resolved_votes : resolved_votes[i].game_id = id})

\* whether the weighting policy adjusts the score of game id
Boosted(id, is_weighted, star_collections) ==
    /\ is_weighted
    /\ star_collections.present
    /\ id \in DOMAIN star_collections.map
    /\ star_collections.map[id] # {}

\* the bonus policy: one point for each user who starred the game
Bonus(id, star_collections) == Cardinality(star_collections.map[id])

FinalScores(valid_games_, resolved_votes, is_weighted, star_collections) ==
    [id \in CandidateIds(valid_games_) |->
        RawScore(resolved_votes, id)
        + IF Boosted(id, is_weighted, star_collections)
          THEN Bonus(id, star_collections) ELSE 0]

MaxScore(scores) ==
    IF DOMAIN scores = {} THEN 0
    ELSE CHOOSE m \in {scores[id] : id \in DOMAIN scores} :
            \A id \in DOMAIN scores : scores[id] <= m

NamesOf(games) == [i \in DOMAIN games |-> games[i].name]

\* a single pick among the games at the maximum
FirstWinner(valid_games_, scores, max_score) ==
    LET tied == SelectSeq(valid_games_, LAMBDA g : scores[g.id] = max_score)
    IN  IF tied = <<>> THEN <<>> ELSE <<tied[1]>>

\* the games whose final score is the maximum, in candidate order
Winners(valid_games_, scores, max_score) ==
    SelectSeq(valid_games_, LAMBDA g : scores[g.id] = max_score)

\* calculate_poll_winner (src.core.logic)
calculate_poll_winner(valid_games_, resolved_votes, priority_ids, is_weighted, star_collections) ==
    CHOOSE outcome \in
        {[winners |-> NamesOf(Winners(valid_games_, scores, MaxScore(scores))),
          scores |-> scores,
          modifiers_log |-> NamesOf(SelectSeq(valid_games_,
                               LAMBDA g : Boosted(g.id, is_weighted, star_collections)))]
         : scores \in {FinalScores(valid_games_, resolved_votes, is_weighted,
                                   star_collections)}} : TRUE

\* a close that clears the votes of the poll
CloseDeletesVotes(B, poll_id) == Where(B, {v \in DOMAIN B : v.poll_id # poll_id})

\* the table after close_poll: the call issues no add, delete or commit
CloseEffect(B, poll_id) == B

\* the CATEGORY votes of a list: no call draws more often than that
CategoryVotes(all_votes) == SelectSeq(all_votes, LAMBDA v : v.vote_type = CATEGORY)

\* chat_id is drawn where the call reads the session row
ClosePoll(poll_id, priority_ids) ==
    \E all_votes \in Orderings(get_votes_for_poll(votes, poll_id)) :
    \E rnd \in [1..Len(CategoryVotes(all_votes)) -> 0..(Cardinality(GameIds) - 1)] :
    \E resolution \in {resolve_category_votes(all_votes, valid_games, rnd)} :
    \E chat_id \in Chats :
    \E is_weighted \in {IsWeighted(chat_id)} :
    \E star_collections \in {IF is_weighted
                              THEN build_star_collections(valid_games, priority_ids)
                              ELSE NoStars} :
    \E outcome \in {calculate_poll_winner(valid_games, resolution.resolved_votes,
                                          priority_ids, is_weighted, star_collections)} :
        /\ closed' = IF resolution.raised
                     THEN [NoClose EXCEPT !.poll_id = poll_id, !.chat_id = chat_id,
                                          !.all_votes = all_votes, !.raised = TRUE]
                     ELSE [poll_id |-> poll_id, chat_id |-> chat_id,
                           all_votes |-> all_votes, raised |-> FALSE,
                           category_resolutions |-> resolution.category_resolutions,
                           resolved_votes |-> resolution.resolved_votes,
                           is_weighted |-> is_weighted,
                           star_collections |-> star_collections,
                           scores |-> outcome.scores,
                           winners |-> outcome.winners,
                           modifiers_log |-> outcome.modifiers_log]
        /\ votes' = CloseEffect(votes, poll_id)
        /\ votes_before' = votes
        /\ cast' = NoCast
        /\ toggle_run' = 0
        /\ toggle_base' = EmptyBag
        /\ UNCHANGED <<vote_limit, valid_games, eff, retry, calls, row_locking>>

\* ------------------------------------------------------------ specification
NoEff == [vote_limit |-> None, game_count |-> 0, result |-> None]

NoRetry == [stage |-> "none", poll_id |-> 0, user_id |-> 0, target_id |-> 0,
            vote_type |-> "none"]

\* the concurrent callers
Callers == {1, 2}

\* result is the VoteResult the call returned, delta the change of the caller's
\* vote count at the step the call returned, overtaken whether another call
\* committed a change of the same vote between the call's lookup and its commit
NoCall == [pc |-> "none", poll_id |-> 0, user_id |-> 0, target_id |-> 0,
           vote_type |-> "none", pending |-> "none", result |-> NoCast,
           delta |-> 0, overtaken |-> FALSE]

NoCalls == [c \in Callers |-> NoCall]

LimitConfigs == {AUTO, UNLIMITED} \cup (1..MaxFixedLimit)

Init ==
    /\ votes = EmptyBag
    /\ vote_limit \in LimitConfigs
    /\ valid_games \in CandidateLists
    /\ cast = NoCast
    /\ votes_before = EmptyBag
    /\ toggle_run = 0
    /\ toggle_base = EmptyBag
    /\ closed = NoClose
    /\ eff = NoEff
    /\ retry = NoRetry
    /\ calls = NoCalls
    /\ row_locking = FALSE

Next ==
    \/ \E poll_id \in Polls, user_id \in Users, target_id \in GameIds :
          CastVote(poll_id, user_id, target_id, GAME)
    \/ \E poll_id \in Polls, user_id \in Users, target_id \in Levels :
          CastVote(poll_id, user_id, target_id, CATEGORY)
    \/ \E poll_id \in Polls :
          ClosePoll(poll_id, PriorityIds)

Spec == Init /\ [][Next]_vars

\* --- the Vote Limiter on its own: any configuration, any candidate count
LimitInit ==
    /\ votes = EmptyBag
    /\ vote_limit = AUTO
    /\ valid_games = <<>>
    /\ cast = NoCast
    /\ votes_before = EmptyBag
    /\ toggle_run = 0
    /\ toggle_base = EmptyBag
    /\ closed = NoClose
    /\ eff = NoEff
    /\ retry = NoRetry
    /\ calls = NoCalls
    /\ row_locking = FALSE

CalculateEffectiveLimit(vote_limit_, game_count) ==
    /\ eff' = [vote_limit |-> vote_limit_, game_count |-> game_count,
               result |-> calculate_effective_limit(vote_limit_, game_count)]
    /\ UNCHANGED <<votes, vote_limit, valid_games, cast, votes_before, toggle_run,
                   toggle_base, closed, retry, calls, row_locking>>

LimitNext ==
    \E vote_limit_ \in LimitConfigs, game_count \in (0 - 2)..MaxCount :
        CalculateEffectiveLimit(vote_limit_, game_count)

LimitSpec == LimitInit /\ [][LimitNext]_vars

\* --- casts only, on two polls, with the retry of a rejected cast followed
TwoPolls == {1, 2}

\* retry after the call that returned c: a rejection is remembered; a removal
\* by the same user in the same poll frees a slot; the same cast again is the
\* retry; calls for another poll or by another user leave it as it is.
RetryAfter(rt, c) ==
    IF rt.stage = "freed" /\ SameCall(c, rt.poll_id, rt.user_id, rt.target_id, rt.vote_type)
    THEN [rt EXCEPT !.stage = "retried"]
    ELSE IF c.message = "Vote limit reached"
    THEN [stage |-> "rejected", poll_id |-> c.poll_id, user_id |-> c.user_id,
          target_id |-> c.target_id, vote_type |-> c.vote_type]
    ELSE IF rt.stage \in {"none", "retried"} THEN NoRetry
    ELSE IF c.poll_id # rt.poll_id \/ c.user_id # rt.user_id THEN rt
    ELSE IF rt.stage = "rejected" /\ c.is_removal THEN [rt EXCEPT !.stage = "freed"]
    ELSE NoRetry

CastInit ==
    /\ Init
    /\ valid_games = <<>>

TrackedCast(poll_id, user_id, target_id, vote_type) ==
    /\ CastVoteCall(poll_id, user_id, target_id, vote_type)
    /\ retry' = RetryAfter(retry, cast')
    /\ UNCHANGED <<calls, row_locking>>

CastNext ==
    \/ \E poll_id \in TwoPolls, user_id \in Users, target_id \in GameIds :
          TrackedCast(poll_id, user_id, target_id, GAME)
    \/ \E poll_id \in TwoPolls, user_id \in Users, target_id \in Levels :
          TrackedCast(poll_id, user_id, target_id, CATEGORY)

CastSpec == CastInit /\ [][CastNext]_vars

\* --- concurrent calls of cast_vote: each caller has a session of its own and
\* makes one call, which is cut at the points where it waits for the database:
\* the lookup, the count, the commit. Statements read what is committed.
StartRows ==
    {PollVote(poll_id, user_id, GAME, id) : poll_id \in Polls, user_id \in Users, id \in GameIds}
    \cup {PollVote(poll_id, user_id, CATEGORY, l) : poll_id \in Polls, user_id \in Users, l \in Levels}

\* the tables sequential use can have left behind: no row twice, no user above
\* the limit
StartStores(vote_limit_) ==
    {SetToBag(S) : S \in
        {T \in SUBSET StartRows :
            /\ Cardinality(T) <= MaxVotes - 1
            /\ \A poll_id \in Polls, user_id \in Users :
                  LET effective_limit == calculate_effective_limit(vote_limit_, 0)
                  IN  effective_limit # None =>
                        Cardinality({r \in T : r.poll_id = poll_id /\ r.user_id = user_id})
                        <= effective_limit}}

\* the committed table once a change was made pending and then committed
Committed(B, pending, row) ==
    IF pending = "delete" THEN Delete(B, row)
    ELSE IF pending = "add" THEN Insert(B, row)
    ELSE B

\* a session whose pending changes reach the table at once
StagedWriteThrough(B, pending, row) == Committed(B, pending, row)

\* the committed table after session.delete or session.add: the change waits
\* in the session until the commit
Staged(B, pending, row) == B

CallRow(call) == PollVote(call.poll_id, call.user_id, call.vote_type, call.target_id)

\* a lookup issued without for update
HoldsNoLock(call) == FALSE

\* with_for_update: the row the lookup returned stays locked until the
\* transaction of the call ends
HoldsLock(call) == row_locking /\ call.pc = "staged" /\ call.pending = "delete"

\* the lookup of a new call; it waits while another transaction holds the
\* lock on a row it selects. A row found is marked for deletion.
Lookup(c, poll_id, user_id, target_id, vote_type) ==
    LET n == RowCount(ExistingVotes(votes, poll_id, user_id, vote_type, target_id))
        row == PollVote(poll_id, user_id, vote_type, target_id)
    IN  /\ calls[c].pc = "none"
        /\ \A d \in Callers \ {c} :
              ~(HoldsLock(calls[d]) /\ SameCall(calls[d], poll_id, user_id, target_id, vote_type))
        /\ calls' = [calls EXCEPT ![c] =
                        [pc |-> IF n > 1 THEN "raised" ELSE IF n = 1 THEN "staged" ELSE "absent",
                         poll_id |-> poll_id, user_id |-> user_id, target_id |-> target_id,
                         vote_type |-> vote_type,
                         pending |-> IF n = 1 THEN "delete" ELSE "none",
                         result |-> NoCast, delta |-> 0, overtaken |-> FALSE]]
        /\ votes' = IF n = 1 THEN Staged(votes, "delete", row) ELSE votes
        /\ UNCHANGED <<vote_limit, valid_games, cast, votes_before, toggle_run,
                       toggle_base, closed, eff, retry, row_locking>>

\* the count and the comparison with the limit; a vote that passes is added
\* to the session
CheckLimit(c) ==
    LET call == calls[c]
        effective_limit == calculate_effective_limit(vote_limit, Len(valid_games))
        rejected == /\ effective_limit # None
                    /\ LimitReached(UserVoteCount(votes, call.poll_id, call.user_id),
                                    effective_limit)
    IN  /\ call.pc = "absent"
        /\ calls' = [calls EXCEPT ![c] =
                        IF rejected
                        THEN [call EXCEPT !.pc = "rejected",
                                          !.result = VoteResult(call.poll_id, call.user_id,
                                                         call.target_id, call.vote_type,
                                                         "return", FALSE,
                                                         "Vote limit reached", FALSE)]
                        ELSE [call EXCEPT !.pc = "staged", !.pending = "add"]]
        /\ votes' = IF rejected THEN votes ELSE Staged(votes, "add", CallRow(call))
        /\ UNCHANGED <<vote_limit, valid_games, cast, votes_before, toggle_run,
                       toggle_base, closed, eff, retry, row_locking>>

\* session.commit
Commit(c) ==
    LET call == calls[c]
        after == Committed(votes, call.pending, CallRow(call))
        message == IF call.pending = "delete" THEN "Vote removed"
                   ELSE IF call.vote_type = CATEGORY THEN "Voted on Category"
                   ELSE "Vote recorded"
    IN  /\ call.pc = "staged"
        /\ calls' = [d \in Callers |->
                        IF d = c
                        THEN [call EXCEPT
                                !.pc = "done",
                                !.result = VoteResult(call.poll_id, call.user_id,
                                               call.target_id, call.vote_type, "return",
                                               TRUE, message, call.pending = "delete"),
                                !.delta = VotesHeld(after, call.poll_id, call.user_id)
                                          - VotesHeld(votes, call.poll_id, call.user_id)]
                        ELSE IF /\ calls[d].pc \in {"absent", "staged"}
                                /\ CallRow(calls[d]) = CallRow(call)
                             THEN [calls[d] EXCEPT !.overtaken = TRUE]
                             ELSE calls[d]]
        /\ votes' = after
        /\ UNCHANGED <<vote_limit, valid_games, cast, votes_before, toggle_run,
                       toggle_base, closed, eff, retry, row_locking>>

\* the call is cancelled or fails before its commit: the session is rolled back
Abort(c) ==
    LET call == calls[c]
    IN  /\ call.pc \in {"absent", "staged"}
        /\ calls' = [calls EXCEPT ![c] = [call EXCEPT !.pc = "aborted"]]
        /\ UNCHANGED <<votes, vote_limit, valid_games, cast, votes_before, toggle_run,
                       toggle_base, closed, eff, retry, row_locking>>

ConcInit ==
    /\ vote_limit \in LimitConfigs
    /\ votes \in StartStores(vote_limit)
    /\ votes_before = votes
    /\ valid_games = <<>>
    /\ row_locking \in BOOLEAN
    /\ calls = NoCalls
    /\ cast = NoCast
    /\ toggle_run = 0
    /\ toggle_base = EmptyBag
    /\ closed = NoClose
    /\ eff = NoEff
    /\ retry = NoRetry

ConcNext ==
    \/ \E c \in Callers, poll_id \in Polls, user_id \in Users, target_id \in GameIds :
          Lookup(c, poll_id, user_id, target_id, GAME)
    \/ \E c \in Callers, poll_id \in Polls, user_id \in Users, target_id \in Levels :
          Lookup(c, poll_id, user_id, target_id, CATEGORY)
    \/ \E c \in Callers : CheckLimit(c)
    \/ \E c \in Callers : Commit(c)
    \/ \E c \in Callers : Abort(c)

ConcSpec == ConcInit /\ [][ConcNext]_vars

\* ------------------------------------------------------------------ claims
AfterCast == cast.vote_type # "none"
AfterClose == closed.poll_id # 0
CastRow == PollVote(cast.poll_id, cast.user_id, cast.vote_type, cast.target_id)
EffectiveLimit == calculate_effective_limit(vote_limit, Len(valid_games))

\* C1: three successive identical casts, starting without the vote and below
\* the limit, insert, remove and re-insert it; after the second the table is
\* the table from before the first.
C1_ToggleInsertRemoveReinsert ==
    /\ toggle_run = 1 =>
          /\ cast.success /\ ~cast.is_removal
          /\ votes = toggle_base (+) SetToBag({CastRow})
          /\ ~HoldsVote(toggle_base, cast.poll_id, cast.user_id, cast.vote_type,
                        cast.target_id)
    /\ toggle_run = 2 =>
          /\ cast.success /\ cast.is_removal
          /\ votes = toggle_base
    /\ toggle_run = 3 =>
          /\ cast.success /\ ~cast.is_removal
          /\ votes = toggle_base (+) SetToBag({CastRow})

C1_Witness ==
    /\ toggle_run = 3
    /\ cast.vote_type = CATEGORY
    /\ toggle_base # EmptyBag

\* C2: with a finite effective limit L, no user ever holds more than L votes
\* in a poll, GAME and CATEGORY votes counted together.
C2_VotesWithinLimit ==
    EffectiveLimit # None =>
        \A poll_id \in Polls, user_id \in Users :
            VotesHeld(votes, poll_id, user_id) <= EffectiveLimit

C2_Witness ==
    /\ AfterCast /\ cast.success /\ ~cast.is_removal
    /\ EffectiveLimit # None
    /\ VotesHeld(votes, cast.poll_id, cast.user_id) = EffectiveLimit
    /\ \E r1 \in DOMAIN votes, r2 \in DOMAIN votes :
          /\ r1.user_id = cast.user_id /\ r2.user_id = cast.user_id
          /\ r1.vote_type = GAME /\ r2.vote_type = CATEGORY

\* the last call found no such vote and the caller at or over a finite limit
CastAtLimit ==
    /\ AfterCast
    /\ ~HoldsVote(votes_before, cast.poll_id, cast.user_id, cast.vote_type,
                  cast.target_id)
    /\ EffectiveLimit # None
    /\ VotesHeld(votes_before, cast.poll_id, cast.user_id) >= EffectiveLimit

\* C3: a cast of a new vote by a user at the finite limit returns
\* success = false, is_removal = false and leaves the table as it was.
C3_RejectedAtLimit ==
    CastAtLimit =>
        /\ cast.outcome = "return"
        /\ ~cast.success /\ ~cast.is_removal
        /\ votes = votes_before

C3_Witness ==
    /\ CastAtLimit
    /\ cast.message = "Vote limit reached"
    /\ votes # EmptyBag

\* C4: the table never holds two rows for one (poll, user, kind, target), and
\* the existence lookup never matches more than one row.
C4_UniqueVotes ==
    /\ \A r \in DOMAIN votes : votes[r] = 1
    /\ cast.outcome # "raise"

C4_Witness ==
    /\ AfterCast /\ cast.success /\ cast.is_removal
    /\ votes # EmptyBag
    /\ toggle_run = 0

\* --- close_poll: the votes fetched and the resolved votes returned for them
Fetched == closed.all_votes
Resolved == closed.resolved_votes

\* the level of a CATEGORY vote has a game in the candidate list
LevelHasGame(level) == \E i \in DOMAIN valid_games : valid_games[i].complexity = level

Kept(v) == v.vote_type = GAME \/ LevelHasGame(v.category_level)

\* the position in Resolved of the resolved vote of Fetched[i]
ResolvedIndex(i) == Cardinality({j \in 1..i : Kept(Fetched[j])})

\* C5: within one call all resolved CATEGORY votes of one level reference the
\* same game, whatever the number and the order of the voters.
C5_SameLevelSameGame ==
    AfterClose =>
        \A i \in DOMAIN Fetched, j \in DOMAIN Fetched :
            ( /\ Fetched[i].vote_type = CATEGORY /\ Fetched[j].vote_type = CATEGORY
              /\ Fetched[i].category_level = Fetched[j].category_level
              /\ LevelHasGame(Fetched[i].category_level) )
            => /\ ResolvedIndex(i) <= Len(Resolved)
               /\ ResolvedIndex(j) <= Len(Resolved)
               /\ Resolved[ResolvedIndex(i)].game_id = Resolved[ResolvedIndex(j)].game_id

C5_Witness ==
    /\ AfterClose
    /\ Len(Resolved) = 2
    /\ \E i \in DOMAIN Fetched, j \in DOMAIN Fetched :
          /\ Fetched[i].vote_type = CATEGORY /\ Fetched[j].vote_type = CATEGORY
          /\ Fetched[i].category_level = Fetched[j].category_level
          /\ Fetched[i].user_id # Fetched[j].user_id
          /\ Cardinality({g \in DOMAIN valid_games :
                 valid_games[g].complexity = Fetched[i].category_level}) >= 2

\* C6: a CATEGORY vote for a level without candidate game yields no resolved
\* vote and no error; the other votes of the call are resolved as usual.
C6_EmptyLevelDropped ==
    AfterClose =>
        /\ ~closed.raised
        /\ \A user_id \in Users :
              Cardinality({k \in DOMAIN Resolved : Resolved[k].user_id = user_id})
              = Cardinality({i \in DOMAIN Fetched :
                                Fetched[i].user_id = user_id /\ Kept(Fetched[i])})

C6_Witness ==
    /\ AfterClose
    /\ valid_games # <<>>
    /\ Len(Resolved) >= 1
    /\ \E i \in DOMAIN Fetched : ~Kept(Fetched[i])

\* C7 as stated: every resolved vote, of a GAME vote or of a CATEGORY vote,
\* references a game of the candidate list.
C7_AllResolvedInCandidates ==
    AfterClose =>
        \A k \in DOMAIN Resolved : Resolved[k].game_id \in CandidateIds(valid_games)

\* C7 amended: a resolved vote references a game absent from the candidate
\* list only if it is the pass-through of a GAME vote cast for that game.
C7_ResolvedInCandidatesOrPassedThrough ==
    AfterClose =>
        \A k \in DOMAIN Resolved :
            Resolved[k].game_id \notin CandidateIds(valid_games) =>
                \E i \in DOMAIN Fetched :
                    /\ Fetched[i].vote_type = GAME
                    /\ Fetched[i].game_id = Resolved[k].game_id
                    /\ Fetched[i].user_id = Resolved[k].user_id
                    /\ ResolvedIndex(i) = k

C7_Witness ==
    /\ AfterClose
    /\ \E i \in DOMAIN Fetched : Fetched[i].vote_type = CATEGORY /\ Kept(Fetched[i])
    /\ \E k \in DOMAIN Resolved : Resolved[k].game_id \notin CandidateIds(valid_games)

\* C8: the AUTO limit is 3 for a count <= 0 and max(3, ceil(log2 n)) for a
\* count n >= 1; it is never below 3 and never decreases as the count grows.
C8_AutoValue ==
    eff.vote_limit = AUTO =>
        /\ eff.result >= 3
        /\ eff.game_count <= 0 => eff.result = 3
        /\ eff.game_count >= 1 =>
              /\ 2^eff.result >= eff.game_count
              /\ eff.result > 3 => 2^(eff.result - 1) < eff.game_count

C8_AutoLimit ==
    /\ []C8_AutoValue
    /\ [][(eff.vote_limit = AUTO /\ eff'.vote_limit = AUTO
            /\ eff.game_count <= eff'.game_count) => eff.result <= eff'.result]_vars

C8_Witness ==
    /\ eff.vote_limit = AUTO
    /\ eff.game_count > 8
    /\ eff.result > 3

\* C9: the winners are exactly the candidate games whose final score is the
\* maximum; games tied at the maximum are all returned.
C9_WinnersAreAllMaxima ==
    (AfterClose /\ ~closed.raised) =>
        \A i \in DOMAIN valid_games :
            (\E w \in DOMAIN closed.winners : closed.winners[w] = valid_games[i].name)
            <=> \A j \in DOMAIN valid_games :
                    closed.scores[valid_games[j].id] <= closed.scores[valid_games[i].id]

C9_Witness ==
    /\ AfterClose
    /\ Len(closed.winners) = 2
    /\ \A i \in DOMAIN valid_games : closed.scores[valid_games[i].id] >= 1

\* C10: close_poll leaves the table as it was, and the votes it fetched are
\* the votes the table still holds for the poll.
C10_CloseKeepsVotes ==
    AfterClose =>
        /\ votes = votes_before
        /\ \A i \in DOMAIN Fetched :
              Fetched[i] \in DOMAIN votes /\ Fetched[i].poll_id = closed.poll_id
        /\ \A r \in DOMAIN votes :
              r.poll_id = closed.poll_id =>
                  Cardinality({i \in DOMAIN Fetched : Fetched[i] = r}) = votes[r]

C10_Witness ==
    /\ AfterClose
    /\ Len(Fetched) >= 2
    /\ votes # EmptyBag

\* --- C11
NoSession(chat_id) == chat_id \notin DOMAIN Sessions

\* C11: a close_poll for a chat id that has no session row completes: weighted
\* voting is off, no star collection map is built (the winner calculation is
\* handed the absent value), and the scores are the plain vote counts with no
\* score modifier logged.
C11_NoSessionMeansUnweighted ==
    (AfterClose /\ NoSession(closed.chat_id)) =>
        /\ ~closed.raised
        /\ ~closed.is_weighted
        /\ closed.star_collections = NoStars
        /\ closed.modifiers_log = <<>>
        /\ \A id \in DOMAIN closed.scores : closed.scores[id] = RawScore(Resolved, id)

\* closed for a chat without a session row, with a vote counted for a game some
\* user starred (a weighted close would have boosted it)
C11_Witness ==
    /\ AfterClose /\ NoSession(closed.chat_id)
    /\ \E id \in DOMAIN closed.scores : id \in PriorityIds /\ closed.scores[id] >= 1

\* --- C15
KeptVotes == {i \in DOMAIN Fetched : Kept(Fetched[i])}

\* C15: the resolver returns one resolved vote for every GAME vote and for
\* every CATEGORY vote whose level has a candidate game, in the order of the
\* input and with the user id of the vote; a GAME vote keeps its game id; the
\* output has as many entries as there are such votes.
C15_OneResolvedVotePerKeptVote ==
    AfterClose =>
        /\ ~closed.raised
        /\ Len(Resolved)
             = Cardinality({i \in DOMAIN Fetched : Fetched[i].vote_type = GAME})
               + Cardinality({i \in DOMAIN Fetched :
                                 /\ Fetched[i].vote_type = CATEGORY
                                 /\ LevelHasGame(Fetched[i].category_level)})
        /\ \A i \in KeptVotes :
              /\ ResolvedIndex(i) \in DOMAIN Resolved
              /\ Resolved[ResolvedIndex(i)].user_id = Fetched[i].user_id
              /\ Fetched[i].vote_type = GAME =>
                    Resolved[ResolvedIndex(i)].game_id = Fetched[i].game_id

\* a close over a GAME vote of user 1 for game 2 and a CATEGORY vote
C15_Witness ==
    /\ AfterClose
    /\ \E i \in DOMAIN Fetched :
          /\ Fetched[i].vote_type = GAME
          /\ Fetched[i].user_id # Fetched[i].game_id
    /\ \E i \in DOMAIN Fetched : Fetched[i].vote_type = CATEGORY
    /\ Len(Resolved) >= 1

\* --- C16
GamesOfLevel(level) ==
    {valid_games[i] : i \in {j \in DOMAIN valid_games : valid_games[j].complexity = level}}

\* C16: the game selected for level L is a game of the candidate list whose
\* complexity is L, and it is the game every kept CATEGORY vote for L is
\* credited to.
C16_SelectedGameHasTheLevel ==
    AfterClose =>
        /\ \A level \in DOMAIN closed.category_resolutions :
              closed.category_resolutions[level] \in GamesOfLevel(level)
        /\ \A i \in KeptVotes :
              Fetched[i].vote_type = CATEGORY =>
                  /\ Fetched[i].category_level \in DOMAIN closed.category_resolutions
                  /\ Resolved[ResolvedIndex(i)].game_id
                       = closed.category_resolutions[Fetched[i].category_level].id

\* levels 1 and 2 both have candidates, a vote for each was resolved
C16_Witness ==
    /\ AfterClose
    /\ DOMAIN closed.category_resolutions = Levels
    /\ \A level \in Levels : GamesOfLevel(level) # {}

\* --- C17
OtherKind(vote_type) == IF vote_type = GAME THEN CATEGORY ELSE GAME

BelowLimit(B, poll_id, user_id) ==
    EffectiveLimit = None \/ VotesHeld(B, poll_id, user_id) < EffectiveLimit

\* C17: the toggle lookup matches the kind of the vote as well as its target.
\* A cast changes no row but the row of its own kind and target, it is a
\* removal only if that row was held, and a cast for number N of one kind by
\* a user below the limit who holds N only as a vote of the other kind adds
\* a second vote and leaves the other one in place.
C17_LookupMatchesKind ==
    AfterCast =>
        /\ \A r \in (DOMAIN votes \cup DOMAIN votes_before) \ {CastRow} :
              CopiesIn(r, votes) = CopiesIn(r, votes_before)
        /\ cast.is_removal =>
              HoldsVote(votes_before, cast.poll_id, cast.user_id, cast.vote_type,
                        cast.target_id)
        /\ ( /\ HoldsVote(votes_before, cast.poll_id, cast.user_id,
                           OtherKind(cast.vote_type), cast.target_id)
             /\ ~HoldsVote(votes_before, cast.poll_id, cast.user_id, cast.vote_type,
                            cast.target_id)
             /\ BelowLimit(votes_before, cast.poll_id, cast.user_id) )
           => /\ cast.success /\ ~cast.is_removal
              /\ votes = Insert(votes_before, CastRow)

\* a CATEGORY cast for level N went in next to the user's GAME vote for game N
C17_Witness ==
    /\ AfterCast /\ cast.vote_type = CATEGORY /\ cast.success /\ ~cast.is_removal
    /\ HoldsVote(votes_before, cast.poll_id, cast.user_id, GAME, cast.target_id)
    /\ HoldsVote(votes, cast.poll_id, cast.user_id, GAME, cast.target_id)
    /\ HoldsVote(votes, cast.poll_id, cast.user_id, CATEGORY, cast.target_id)

\* --- C19
\* C19: with the UNLIMITED setting the effective limit is the absent value
\* and no cast is rejected: a cast of a held vote removes it, a cast of an
\* absent vote is inserted, however many votes the user holds.
C19_UnlimitedNeverRejects ==
    vote_limit = UNLIMITED =>
        /\ EffectiveLimit = None
        /\ AfterCast =>
              /\ cast.outcome = "return" /\ cast.success
              /\ cast.message # "Vote limit reached"
              /\ ~HoldsVote(votes_before, cast.poll_id, cast.user_id, cast.vote_type,
                             cast.target_id)
                 => votes = Insert(votes_before, CastRow)

\* an insert for a user who already held a vote, under UNLIMITED
C19_Witness ==
    /\ vote_limit = UNLIMITED
    /\ AfterCast /\ cast.success /\ ~cast.is_removal
    /\ VotesHeld(votes_before, cast.poll_id, cast.user_id) >= 1
    /\ VotesHeld(votes, cast.poll_id, cast.user_id)
         = VotesHeld(votes_before, cast.poll_id, cast.user_id) + 1

\* --- C18
CastWasHeld ==
    HoldsVote(votes_before, cast.poll_id, cast.user_id, cast.vote_type, cast.target_id)

\* C18: a cast of a vote the user holds is never rejected for the limit, it
\* removes the vote however many votes the user holds; and once a cast was
\* rejected for the limit and the user then removed one of his votes in that
\* poll, the same cast, retried, is accepted and inserts the vote.
C18_RemovalFreesASlot ==
    /\ (AfterCast /\ CastWasHeld) =>
          /\ cast.success /\ cast.is_removal
          /\ votes = Delete(votes_before, CastRow)
    /\ retry.stage = "retried" =>
          /\ cast.success /\ ~cast.is_removal
          /\ votes = Insert(votes_before, CastRow)

\* the retry has happened, after a rejection and a removal made at the limit
C18_Witness ==
    /\ retry.stage = "retried"
    /\ SameCall(cast, retry.poll_id, retry.user_id, retry.target_id, retry.vote_type)
    /\ VotesHeld(votes, cast.poll_id, cast.user_id) = EffectiveLimit

\* --- C20
OfCaster(r) == r.poll_id = cast.poll_id /\ r.user_id = cast.user_id

\* C20: a cast for poll P by user U changes no vote of another user or of
\* another poll, and the limit is compared with U's votes in P alone: the
\* cast is rejected only if those reach the limit, and a cast of an absent
\* vote is accepted whenever they are below it.
C20_OnlyTheCastersVotes ==
    AfterCast =>
        /\ \A r \in DOMAIN votes \cup DOMAIN votes_before :
              ~OfCaster(r) => CopiesIn(r, votes) = CopiesIn(r, votes_before)
        /\ cast.message = "Vote limit reached" =>
              /\ EffectiveLimit # None
              /\ VotesHeld(votes_before, cast.poll_id, cast.user_id) >= EffectiveLimit
        /\ (~CastWasHeld /\ BelowLimit(votes_before, cast.poll_id, cast.user_id)) =>
              votes = Insert(votes_before, CastRow)

\* an accepted cast while the votes of other users and other polls alone
\* already number the limit
C20_Witness ==
    /\ AfterCast /\ cast.success /\ ~cast.is_removal
    /\ EffectiveLimit # None
    /\ \E r \in DOMAIN votes_before : r.poll_id # cast.poll_id /\ r.user_id = cast.user_id
    /\ RowCount(Where(votes_before, {r \in DOMAIN votes_before : ~OfCaster(r)}))
         >= EffectiveLimit

\* --- C12
\* C12: on a backend with row locking, two concurrent casts for the same
\* (poll, user, kind, target), interleaved in any way between lookup and
\* commit, never leave two rows for that tuple, also when neither lookup
\* found a row.
C12_NoDoubleInsertUnderLocking ==
    row_locking => \A r \in DOMAIN votes : votes[r] <= 1

\* --- C13
BothCalled == \A c \in Callers : calls[c].pc # "none"

\* C13: two concurrent casts by one user in one poll for different targets
\* never leave the user with more votes in the poll than a finite limit.
C13_ConcurrentCastsWithinLimit ==
    ( /\ BothCalled
      /\ calls[1].poll_id = calls[2].poll_id /\ calls[1].user_id = calls[2].user_id
      /\ CallRow(calls[1]) # CallRow(calls[2])
      /\ EffectiveLimit # None )
    => VotesHeld(votes, calls[1].poll_id, calls[1].user_id) <= EffectiveLimit

\* --- C14
Done == {c \in Callers : calls[c].pc = "done"}

CommittedBy(B, c) == Committed(B, calls[c].pending, CallRow(calls[c]))

\* C14: the committed table changes only by the commits of calls: while no
\* call has committed it is the table the calls started on, whatever was
\* looked up, counted, made pending or aborted; a call that committed has
\* made the one change it had pending.
C14_OnlyCommitsChangeTheTable ==
    /\ Done = {} => votes = votes_before
    /\ \A c \in Callers : Done = {c} => votes = CommittedBy(votes_before, c)
    /\ Done = Callers =>
          \/ votes = CommittedBy(CommittedBy(votes_before, 1), 2)
          \/ votes = CommittedBy(CommittedBy(votes_before, 2), 1)

\* one call was aborted with a change pending, the other has committed
C14_Witness ==
    \E c \in Callers, d \in Callers :
        /\ calls[c].pc = "aborted" /\ calls[c].pending # "none"
        /\ calls[d].pc = "done"
        /\ votes # votes_before

\* --- C21
Returned == {c \in Callers : calls[c].result.outcome = "return"}

\* the VoteResult of call c agrees with what the call did to the table
Agrees(c) ==
    LET result == calls[c].result
    IN  /\ (result.success /\ result.is_removal) => calls[c].delta = 0 - 1
        /\ (result.success /\ ~result.is_removal) => calls[c].delta = 1
        /\ ~result.success => calls[c].delta = 0 /\ ~result.is_removal

\* C21 as stated: the VoteResult of every call agrees with the change the
\* call made: a removal with one vote less, an accepted cast with one vote
\* more, a failure with no change.
C21_ResultAlwaysAgrees ==
    \A c \in Returned : Agrees(c)

\* C21 amended: the VoteResult agrees with the change unless another call
\* removed the same vote between the lookup and the commit of a toggle-off,
\* which happens only where the lookup takes no row lock; every call changes
\* the caller's vote count by at most one.
C21_ResultAgreesUnlessOvertaken ==
    \A c \in Callers :
        /\ calls[c].delta \in {0 - 1, 0, 1}
        /\ c \in Returned =>
              \/ Agrees(c)
              \/ /\ ~row_locking
                 /\ calls[c].result.is_removal
                 /\ calls[c].overtaken

\* with row locking, two overlapping calls for a vote that was held: the one
\* removed it, the other waited and put it back
C21_Witness ==
    /\ row_locking
    /\ \E c \in Callers, d \in Callers :
          /\ c # d
          /\ CallRow(calls[c]) = CallRow(calls[d])
          /\ calls[c].result.is_removal /\ calls[c].delta = 0 - 1
          /\ calls[d].result.success /\ ~calls[d].result.is_removal
          /\ calls[d].delta = 1
          /\ CallRow(calls[c]) \in DOMAIN votes_before

====
